---- MODULE Spec2Model ----
(***************************************************************************)
(* A model of imitation.util: the sum-preserving rounding `oric`, the      *)
(* running normalisation layers RunningNorm / EMANorm, `endless_iter`,     *)
(* `get_first_iter_element`, `make_seeds` and `compute_state_entropy`.     *)
(*                                                                         *)
(* Real numbers are exact rationals <<numerator, denominator>> in lowest   *)
(* terms with a positive denominator, so that the arithmetic identities    *)
(* the code relies on are decided exactly.  The tensors of the             *)
(* normalisation layers hold floating-point numbers: every tensor          *)
(* operation goes through Fl, which is the identity when `precision` is 0  *)
(* (exact real arithmetic) and rounds to the nearest number with           *)
(* `precision` significant bits, halves to even, otherwise.                *)
(***************************************************************************)
EXTENDS Integers, Sequences, FiniteSets, TLC

VARIABLES
    x,              \* oric: the argument, a sequence of rationals
    rounded,        \* oric: the returned integer vector
    indices,        \* oric: the permutation np.argsort returned
    oric_pc,        \* oric: "ready" before the call, "done" after it
    norm,           \* normalizer: "none" before construction, then its class
                    \* ("RunningNorm", "EMANorm") or "ValueError" when
                    \* construction raised
    num_features,   \* normalizer: length of the non-batch dimension
    decay,          \* EMANorm.decay
    decay_within_batch, \* EMANorm.decay_within_batch
    training,       \* nn.Module.training
    precision,      \* significant bits of the tensors' floating-point
                    \* numbers; 0 stands for exact real arithmetic
    running_mean,   \* buffer: one rational per feature
    running_var,    \* buffer: one rational per feature
    count,          \* buffer: number of rows seen
    batches,        \* history: the batches given to update_stats since the
                    \* statistics were last at their defaults
    was_reset,      \* history: reset_running_stats has discarded statistics
    last,           \* history: the last call, its argument and the statistics
                    \* before it
    iterable,       \* endless_iter: the elements its argument holds
    is_iterator,    \* endless_iter: iter(iterable) == iterable
    iter_pc,        \* endless_iter: "ready" before the call, then
                    \* "iterating" (an iterator was returned) or "ValueError";
                    \* "StopIteration" once the returned iterator has ended
    cycled,         \* the iterable handed to itertools.repeat
    inner,          \* chain.from_iterable: elements taken from its current
                    \* inner iterator, NoInner when it has none
    yielded,        \* history: the elements next() has returned, in order
    first_pc,       \* get_first_iter_element: "ready" before the call, then
                    \* "returned" or "ValueError"; "StopIteration" once the
                    \* returned iterable has ended
    first_element,  \* get_first_iter_element: <<the first element returned>>
    return_iterable, \* get_first_iter_element: the elements the returned
                    \* iterable yields
    drawn,          \* history: the elements taken from the returned iterable
    n_arg,          \* make_seeds: <<>> when n is None, else <<n>>
    seeds_pc,       \* make_seeds: "ready" before the call, "done" after it
    seeds,          \* make_seeds: the value returned
    obs,            \* compute_state_entropy: the query rows, one number each
    all_obs,        \* compute_state_entropy: the reference rows
    k_arg,          \* compute_state_entropy: the argument k
    ent_pc,         \* compute_state_entropy: "ready" before the call, then
                    \* "done" or, when th.kthvalue raised, "error"
    knn_dists       \* compute_state_entropy: the tensor returned

oricVars == <<x, rounded, indices, oric_pc>>
normVars == <<norm, num_features, decay, decay_within_batch, training,
              precision, running_mean, running_var, count, batches,
              was_reset, last>>
iterVars == <<iterable, is_iterator, iter_pc, cycled, inner, yielded,
              first_pc, first_element, return_iterable, drawn>>
seedVars == <<n_arg, seeds_pc, seeds>>
entVars == <<obs, all_obs, k_arg, ent_pc, knn_dists>>
vars == <<oricVars, normVars, iterVars, seedVars, entVars>>

-----------------------------------------------------------------------------
(* Bounds of the model.                                                    *)

\* longest vector given to oric
MaxLen == 3
\* the elements given to oric are the multiples of 1/OricDen in [-1, 1)
OricDen == 4
\* the Lp norms compared are p = 1 .. MaxP
MaxP == 3
\* most rows of one batch
MaxBatch == 2
\* most rows a normalizer is given before it is reset
MaxCount == 3
\* significant bits of the rounded arithmetic (float32 has 24)
FloatBits == 8
\* most elements of a source given to endless_iter
MaxSource == 3
\* most elements taken from the iterator endless_iter returns
MaxYield == 7
\* largest n given to make_seeds
MaxSeeds == 3
\* most query rows given to compute_state_entropy
MaxQueries == 2
\* most reference rows of the exhaustively enumerated references
MaxRows == 3
\* largest k given to compute_state_entropy
MaxK == 2

-----------------------------------------------------------------------------
(* Exact rational arithmetic.                                              *)

Abs(n) == IF n < 0 THEN -n ELSE n

RECURSIVE Gcd(_, _)
Gcd(a, b) == IF b = 0 THEN a ELSE Gcd(b, a % b)

\* the rational n/d (d /= 0) in lowest terms with a positive denominator
Rat(n, d) ==
    LET g == Gcd(Abs(n), Abs(d))
        s == IF d < 0 THEN -1 ELSE 1
    IN  <<(s * n) \div g, (s * d) \div g>>

FromInt(n) == <<n, 1>>
Zero == FromInt(0)
One == FromInt(1)

Add(a, b) ==
    LET g == Gcd(a[2], b[2])
    IN  Rat(a[1] * (b[2] \div g) + b[1] * (a[2] \div g), (a[2] \div g) * b[2])

Neg(a) == <<-a[1], a[2]>>
Sub(a, b) == Add(a, Neg(b))

Mul(a, b) ==
    LET g1 == Gcd(Abs(a[1]), b[2])
        g2 == Gcd(Abs(b[1]), a[2])
    IN  Rat((a[1] \div g1) * (b[1] \div g2), (a[2] \div g2) * (b[2] \div g1))

\* a / b for b /= 0
Div(a, b) == Mul(a, Rat(b[2], b[1]))

Square(a) == Mul(a, a)
Less(a, b) == a[1] * b[2] < b[1] * a[2]
Leq(a, b) == a[1] * b[2] <= b[1] * a[2]
IsInt(a) == a[2] = 1

RECURSIVE SumSeq(_)
SumSeq(s) == IF s = <<>> THEN Zero ELSE Add(Head(s), SumSeq(Tail(s)))

RECURSIVE PowInt(_, _)
PowInt(b, e) == IF e = 0 THEN 1 ELSE b * PowInt(b, e - 1)

-----------------------------------------------------------------------------
(* oric: optimal rounding under integer constraints (util.py).             *)

\* np.floor of one element, as an integer
Floor(a) == a[1] \div a[2]

\* np.round of a scalar: to the nearest integer, halves to the even one
Round(a) ==
    LET f == Floor(a)
        twice == Sub(Mul(FromInt(2), a), FromInt(2 * f))   \* 2 * (a - floor(a))
    IN  IF Less(twice, One) THEN f
        ELSE IF Less(One, twice) THEN f + 1
        ELSE IF f % 2 = 0 THEN f ELSE f + 1

\* rounded = np.floor(x)
FloorVec(v) == [i \in 1..Len(v) |-> Floor(v[i])]

\* shortfall = x - rounded
Shortfall(v) == [i \in 1..Len(v) |-> Sub(v[i], FromInt(Floor(v[i])))]

\* total_shortfall = np.round(shortfall.sum()).astype(int)
TotalShortfall(v) == Round(SumSeq(Shortfall(v)))

\* np.argsort(-shortfall): the permutations that put -shortfall in
\* non-decreasing order.  The default sort kind is not stable, so the order
\* among equal keys is any of them.
Argsort(keys) ==
    LET n == Len(keys)
    IN  {p \in [1..n -> 1..n] :
            /\ \A i, j \in 1..n : i /= j => p[i] /= p[j]
            /\ \A i, j \in 1..n : i < j => Leq(keys[p[i]], keys[p[j]])}

\* a slip that sorts by ascending shortfall
NegVecDropped(v) == v

NegVec(v) == [i \in 1..Len(v) |-> Neg(v[i])]

\* a slip that takes one index too many
TakeOneMore(p, k) == {p[i] : i \in 1..(IF k + 1 > Len(p) THEN Len(p) ELSE k + 1)}

\* indices[:k] as a set of positions; numpy clamps the slice to the array
\* and counts a negative k from the end
Take(p, k) ==
    LET n == Len(p)
        stop == IF k < 0 THEN (IF n + k < 0 THEN 0 ELSE n + k)
                ELSE IF k > n THEN n ELSE k
    IN  {p[i] : i \in 1..stop}

\* rounded[indices[:total_shortfall]] += 1
Apportion(fl, p, k) ==
    [i \in 1..Len(fl) |-> IF i \in Take(p, k) THEN fl[i] + 1 ELSE fl[i]]

\* the whole function, for the argsort result p
oric(v, p) == Apportion(FloorVec(v), p, TotalShortfall(v))

OricElems == {Rat(n, OricDen) : n \in (-OricDen)..(OricDen - 1)}

OricInputs == UNION {[1..n -> OricElems] : n \in 0..MaxLen}

OricIdle ==
    /\ x = <<>>
    /\ rounded = <<>>
    /\ indices = <<>>
    /\ oric_pc = "idle"

-----------------------------------------------------------------------------
(* endless_iter and get_first_iter_element (util.py).                      *)

\* the elements a source holds
Elems == {"a", "b"}

Sources == UNION {[1..n -> Elems] : n \in 0..MaxSource}

\* chain.from_iterable has no inner iterator yet
NoInner == -1

\* a slip that does not give the first element back
GetFirstIterElementDropped(s, isIter) ==
    IF Len(s) = 0
    THEN [raised |-> TRUE, first_element |-> <<>>, return_iterable |-> <<>>]
    ELSE [raised |-> FALSE, first_element |-> <<s[1]>>,
          return_iterable |-> Tail(s)]

\* a slip that leaves the StopIteration of an empty argument unhandled
GetFirstIterElementUnchecked(s, isIter) ==
    [raised |-> FALSE,
     first_element |-> IF Len(s) = 0 THEN <<>> ELSE <<s[1]>>,
     return_iterable |-> s]

\* get_first_iter_element(iterable) on an argument holding the elements s:
\* ValueError when next(iter(iterable)) raises StopIteration; else the first
\* element and the elements the returned iterable yields, which is
\* chain([first_element], iterator) for an iterator and the argument
\* itself otherwise
GetFirstIterElement(s, isIter) ==
    IF Len(s) = 0
    THEN [raised |-> TRUE, first_element |-> <<>>, return_iterable |-> <<>>]
    ELSE [raised |-> FALSE, first_element |-> <<s[1]>>,
          return_iterable |-> IF isIter THEN <<s[1]>> \o Tail(s) ELSE s]

\* iter(iterable) of a non-iterator: a fresh iterator, nothing taken yet
FreshIterator(s) == 0

\* itertools.repeat(iterable) has no `times`: it is never exhausted
RepeatExhausted(s) == FALSE

IterIdle ==
    /\ iterable = <<>>
    /\ is_iterator = FALSE
    /\ iter_pc = "idle"
    /\ cycled = <<>>
    /\ inner = NoInner
    /\ yielded = <<>>
    /\ first_pc = "idle"
    /\ first_element = <<>>
    /\ return_iterable = <<>>
    /\ drawn = <<>>

\* it = endless_iter(iterable)
EndlessIter ==
    /\ iter_pc = "ready"
    /\ first_pc = "ready"
    /\ first_pc' = "idle"
    /\ LET got == GetFirstIterElement(iterable, is_iterator)
       IN  IF is_iterator \/ got.raised
           THEN iter_pc' = "ValueError" /\ cycled' = <<>>
           ELSE iter_pc' = "iterating" /\ cycled' = got.return_iterable
    /\ UNCHANGED <<iterable, is_iterator, inner, yielded>>
    /\ UNCHANGED <<first_element, return_iterable, drawn>>
    /\ UNCHANGED <<oricVars, normVars, seedVars, entVars>>

\* next(it) on chain.from_iterable(repeat(cycled)): an exhausted or missing
\* inner iterator is replaced by iter() of the next item of repeat, until
\* one yields an element; on a source without elements that never happens
\* and the call does not return
NextElement ==
    /\ iter_pc = "iterating"
    /\ Len(yielded) < MaxYield
    /\ LET renew == inner = NoInner \/ inner >= Len(cycled)
           pos == IF renew THEN FreshIterator(cycled) ELSE inner
       IN  IF renew /\ RepeatExhausted(cycled)
           THEN iter_pc' = "StopIteration" /\ UNCHANGED <<inner, yielded>>
           ELSE /\ Len(cycled) > 0
                /\ yielded' = Append(yielded, cycled[pos + 1])
                /\ inner' = pos + 1
                /\ UNCHANGED iter_pc
    /\ UNCHANGED <<iterable, is_iterator, cycled>>
    /\ UNCHANGED <<first_pc, first_element, return_iterable, drawn>>
    /\ UNCHANGED <<oricVars, normVars, seedVars, entVars>>

\* first_element, return_iterable = get_first_iter_element(iterable)
CallGetFirstIterElement ==
    /\ iter_pc = "ready"
    /\ first_pc = "ready"
    /\ iter_pc' = "idle"
    /\ LET got == GetFirstIterElement(iterable, is_iterator)
       IN  /\ first_pc' = IF got.raised THEN "ValueError" ELSE "returned"
           /\ first_element' = got.first_element
           /\ return_iterable' = got.return_iterable
    /\ UNCHANGED <<iterable, is_iterator, cycled, inner, yielded, drawn>>
    /\ UNCHANGED <<oricVars, normVars, seedVars, entVars>>

\* next() on one iterator of return_iterable, taken from its start
NextReturned ==
    /\ first_pc = "returned"
    /\ IF Len(drawn) < Len(return_iterable)
       THEN /\ drawn' = Append(drawn, return_iterable[Len(drawn) + 1])
            /\ UNCHANGED first_pc
       ELSE /\ first_pc' = "StopIteration"
            /\ UNCHANGED drawn
    /\ UNCHANGED <<iterable, is_iterator, iter_pc, cycled, inner, yielded>>
    /\ UNCHANGED <<first_element, return_iterable>>
    /\ UNCHANGED <<oricVars, normVars, seedVars, entVars>>

IterNext ==
    EndlessIter \/ NextElement \/ CallGetFirstIterElement \/ NextReturned

-----------------------------------------------------------------------------
(* make_seeds (util.py).                                                   *)

\* (1 << 31) - 1, summed so that no intermediate value exceeds it
SeedHigh == (PowInt(2, 30) - 1) + PowInt(2, 30)

\* the raw values the generator is taken through: both ends of its range
\* and values between
RawDraws == {0, 1, PowInt(2, 30), SeedHigh - 2, SeedHigh - 1, SeedHigh}

\* a slip that takes high as inclusive
RngIntegersClosed(low, high) ==
    {low + (r % (high - low)) : r \in RawDraws} \cup {high}

\* one element of rng.integers(low, high, ...): high is exclusive
RngIntegers(low, high) == {low + (r % (high - low)) : r \in RawDraws}

\* (n if n is not None else 1,)
SeedsSize(n) == IF n = <<>> THEN 1 ELSE n[1]

\* the value returned for the drawn list: seeds[0] when n is None, else the
\* list
SeedsReturned(n, drawn_seeds) ==
    IF n = <<>> THEN [is_list |-> FALSE, values |-> <<drawn_seeds[1]>>]
    ELSE [is_list |-> TRUE, values |-> drawn_seeds]

NoSeeds == [is_list |-> FALSE, values |-> <<>>]

SeedsIdle ==
    /\ n_arg = <<>>
    /\ seeds_pc = "idle"
    /\ seeds = NoSeeds

\* make_seeds(rng, n) and make_seeds(rng)
MakeSeeds ==
    /\ seeds_pc = "ready"
    /\ \E seeds_arr \in [1..SeedsSize(n_arg) -> RngIntegers(0, SeedHigh)] :
          seeds' = SeedsReturned(n_arg, seeds_arr)
    /\ seeds_pc' = "done"
    /\ UNCHANGED n_arg
    /\ UNCHANGED <<oricVars, normVars, iterVars, entVars>>

SeedsNext == MakeSeeds

-----------------------------------------------------------------------------
(* compute_state_entropy (util.py).                                        *)

\* batch_size = 500
batch_size == 500

\* the values an observation takes; rows have one feature
ObsVals == {0, 1, 3}

\* th.linalg.vector_norm(a - b, ord=2) over the one feature: sqrt((a-b)^2)
Dist(a, b) == Abs(a - b)

Min(a, b) == IF a < b THEN a ELSE b

\* s[start:end] of Python, 0 <= start <= end
Slice(s, start, end) ==
    [j \in 1..(Min(end, Len(s)) - Min(start, Len(s))) |-> s[start + j]]

\* range(len(all_obs) // batch_size + 1)
ChunkCount(n) == (n \div batch_size) + 1

\* distances_tensor of chunk idx, for the query row q
ChunkDists(q, rows, idx) ==
    LET all_obs_batch == Slice(rows, idx * batch_size, (idx + 1) * batch_size)
    IN  [j \in 1..Len(all_obs_batch) |-> Dist(q, all_obs_batch[j])]

\* th.cat(dists, dim=1), for the query row q, over chunks 0 .. idx
RECURSIVE CatDists(_, _, _)
CatDists(q, rows, idx) ==
    IF idx < 0 THEN <<>>
    ELSE CatDists(q, rows, idx - 1) \o ChunkDists(q, rows, idx)

\* th.kthvalue(row, kk).values: the kk-th smallest, 1 <= kk <= Len(row)
KthValue(row, kk) ==
    CHOOSE v \in {row[j] : j \in 1..Len(row)} :
        /\ Cardinality({j \in 1..Len(row) : row[j] < v}) < kk
        /\ Cardinality({j \in 1..Len(row) : row[j] <= v}) >= kk

\* the k handed to th.kthvalue
NeighbourIndex(kk) == kk + 1

\* reference sets around the chunk size: all rows alike but one, which
\* lies at an end of a chunk
EdgePositions(n) == {1, batch_size, batch_size + 1, n} \cap (1..n)

EdgeRows(n) ==
    {[i \in 1..n |-> IF i = pos THEN near ELSE far] :
        pos \in EdgePositions(n), near \in ObsVals, far \in ObsVals}

LongLens == {batch_size - 1, batch_size, batch_size + 1,
             2 * batch_size, 2 * batch_size + 1}

References ==
    UNION {[1..n -> ObsVals] : n \in 0..MaxRows}
        \cup UNION {EdgeRows(n) : n \in LongLens}

Queries == UNION {[1..n -> ObsVals] : n \in 1..MaxQueries}

EntropyIdle ==
    /\ obs = <<>>
    /\ all_obs = <<>>
    /\ k_arg = 0
    /\ ent_pc = "idle"
    /\ knn_dists = <<>>

\* compute_state_entropy(obs, all_obs, k)
ComputeStateEntropy ==
    /\ ent_pc = "ready"
    /\ IF NeighbourIndex(k_arg) > Len(all_obs)
       THEN ent_pc' = "error" /\ knn_dists' = <<>>
       ELSE /\ ent_pc' = "done"
            /\ knn_dists' =
                  [i \in 1..Len(obs) |->
                      KthValue(CatDists(obs[i], all_obs,
                                        ChunkCount(Len(all_obs)) - 1),
                               NeighbourIndex(k_arg))]
    /\ UNCHANGED <<obs, all_obs, k_arg>>
    /\ UNCHANGED <<oricVars, normVars, iterVars, seedVars>>

EntropyNext == ComputeStateEntropy

-----------------------------------------------------------------------------
(* The normalisation layers (networks.py).                                 *)

\* the values a batch entry takes
Vals == {-1, 1, 3}

\* the num_features a normalizer is built with
FeatureCounts == {1}

\* the decays a caller passes to EMANorm: 0 < decay < 1 and not
GoodDecays == {Rat(1, 2), Rat(9, 10)}
BadDecays == {Rat(0, 1), Rat(1, 1), Rat(-1, 2), Rat(3, 2)}

Rows(F) == [1..F -> {FromInt(v) : v \in Vals}]

\* the tensors of shape (B, F) with 1 <= B <= MaxBatch
Batches(F) == UNION {[1..b -> Rows(F)] : b \in 1..MaxBatch}

Stats(m, v, c) == [running_mean |-> m, running_var |-> v, count |-> c]

CurrentStats == Stats(running_mean, running_var, count)

\* a slip that leaves the variance at zero
ResetStatsZeroVar(F) == Stats([f \in 1..F |-> Zero], [f \in 1..F |-> Zero], 0)

\* reset_running_stats: running_mean.zero_(), running_var.fill_(1),
\* count.zero_()
ResetStats(F) == Stats([f \in 1..F |-> Zero], [f \in 1..F |-> One], 0)

\* the integer nearest to n/d (n >= 0, d > 0), halves to the even one
NearestEven(n, d) ==
    LET m == n \div d
        twice == 2 * (n % d)
    IN  IF twice > d \/ (twice = d /\ m % 2 = 1) THEN m + 1 ELSE m

\* n/d * 2^k, for n/d > 0, rounded to the nearest number with a significand
\* of p bits
RoundPos[n \in Nat, d \in Nat, k \in Int, p \in Nat] ==
    IF n \div d >= PowInt(2, p) THEN RoundPos[n, 2 * d, k + 1, p]
    ELSE IF n \div d < PowInt(2, p - 1) THEN RoundPos[2 * n, d, k - 1, p]
    ELSE IF k >= 0 THEN FromInt(NearestEven(n, d) * PowInt(2, k))
    ELSE Rat(NearestEven(n, d), PowInt(2, -k))

\* the value a tensor element keeps of the real q: q itself under exact
\* arithmetic, else q rounded to `precision` significant bits
Stored[q \in Int \X Int] ==
    IF precision = 0 \/ q[1] = 0 THEN q
    ELSE IF q[1] < 0 THEN Neg(RoundPos[-q[1], q[2], 0, precision])
    ELSE RoundPos[q[1], q[2], 0, precision]

Fl(q) == Stored[q]

\* the elementwise tensor operations
TAdd(a, b) == Fl(Add(a, b))
TSub(a, b) == Fl(Sub(a, b))
TMul(a, b) == Fl(Mul(a, b))
TDiv(a, b) == Fl(Div(a, b))
TSquare(a) == Fl(Mul(a, a))

\* th.sum over a sequence of elements, summed in order
RECURSIVE TSumFrom(_, _)
TSumFrom(s, n) == IF n = 1 THEN s[1] ELSE TAdd(TSumFrom(s, n - 1), s[n])

TSum(s) == IF Len(s) = 0 THEN Zero ELSE TSumFrom(s, Len(s))

\* th.sum(weights * batch, dim=0)[f]
WeightedSum(weights, batch, f) ==
    TSum([i \in 1..Len(batch) |-> TMul(weights[i], batch[i][f])])

\* th.mean(batch, dim=0)
BatchMean(batch) ==
    [f \in 1..Len(batch[1]) |->
        TDiv(TSum([i \in 1..Len(batch) |-> batch[i][f]]), FromInt(Len(batch)))]

\* th.var(batch, dim=0, unbiased=False)
BatchVar(batch) ==
    LET m == BatchMean(batch)
    IN  [f \in 1..Len(batch[1]) |->
            TDiv(TSum([i \in 1..Len(batch) |-> TSquare(TSub(batch[i][f], m[f]))]),
                 FromInt(Len(batch)))]

\* a slip that leaves the cross term of the pairwise update out
CrossTermDropped(delta, n0, n1, tot) == Zero

\* th.square(delta) * self.count * batch_count / tot_count
CrossTerm(delta, n0, n1, tot) ==
    TDiv(TMul(TMul(TSquare(delta), FromInt(n0)), FromInt(n1)), FromInt(tot))

\* RunningNorm.update_stats
RunningUpdateStats(st, batch) ==
    LET batch_mean == BatchMean(batch)
        batch_var == BatchVar(batch)
        batch_count == Len(batch)
        F == Len(st.running_mean)
        delta == [f \in 1..F |-> TSub(batch_mean[f], st.running_mean[f])]
        tot_count == st.count + batch_count
        mean == [f \in 1..F |->
                    TAdd(st.running_mean[f],
                         TDiv(TMul(delta[f], FromInt(batch_count)),
                              FromInt(tot_count)))]
        v1 == [f \in 1..F |-> TMul(st.running_var[f], FromInt(st.count))]
        v2 == [f \in 1..F |-> TAdd(v1[f], TMul(batch_var[f], FromInt(batch_count)))]
        v3 == [f \in 1..F |->
                  TAdd(v2[f], CrossTerm(delta[f], st.count, batch_count, tot_count))]
        v4 == [f \in 1..F |-> TDiv(v3[f], FromInt(tot_count))]
    IN  Stats(mean, v4, st.count + batch_count)

\* a power of a tensor element, by repeated multiplication
RECURSIVE TPower(_, _)
TPower(a, e) == IF e = 0 THEN One ELSE TMul(TPower(a, e - 1), a)

\* th.vander(th.tensor([decay]), N=b_size).T: decay^(N-1), ..., decay, 1
Vander(d, N) == [i \in 1..N |-> TPower(Fl(d), N - i)]

\* the weights before the count == 0 / count > 0 branches
InitialWeights(d, dwb, b_size) ==
    IF dwb THEN Vander(d, b_size)
    ELSE [i \in 1..b_size |-> TDiv(One, FromInt(b_size))]

\* a slip that leaves the weights of the first update unscaled
FirstWeightsUnscaled(w, alpha, dwb) == w

\* count == 0: weights[1:] *= alpha under decay_within_batch
FirstWeights(w, alpha, dwb) ==
    IF dwb THEN [i \in 1..Len(w) |-> IF i >= 2 THEN TMul(w[i], alpha) ELSE w[i]]
    ELSE w

\* a slip that weighs the old aggregate by alpha instead of decay
RunningWeightAlpha(d, dwb, w) == Fl(Sub(One, d))

\* count > 0: the weight of the old aggregate
RunningWeight(d, dwb, w) == IF dwb THEN TMul(Fl(d), w[1]) ELSE Fl(d)

\* running_weight * (self.running_var + self.running_mean**2)
SecondMoment(rw, var, mean) == TMul(rw, TAdd(var, TSquare(mean)))

\* EMANorm.update_stats
EMAUpdateStats(st, batch, d, dwb) ==
    LET b_size == Len(batch)
        F == Len(batch[1])
        w0 == InitialWeights(d, dwb, b_size)
        \* alpha = 1 - self.decay is a Python float; a tensor operation
        \* takes it in the tensor's precision
        alpha == Fl(Sub(One, d))
    IN  IF st.count = 0
        THEN LET weights == FirstWeights(w0, alpha, dwb)
                 mean == [f \in 1..F |-> WeightedSum(weights, batch, f)]
                 var == IF b_size > 1
                        THEN [f \in 1..F |->
                                TSum([i \in 1..b_size |->
                                    TMul(weights[i],
                                         TSquare(TSub(batch[i][f], mean[f])))])]
                        ELSE [f \in 1..F |-> Zero]
             IN  Stats(mean, var, st.count + b_size)
        ELSE LET running_weight == RunningWeight(d, dwb, w0)
                 weights == [i \in 1..b_size |-> TMul(w0[i], alpha)]
                 ex2 == [f \in 1..F |->
                            SecondMoment(running_weight, st.running_var[f],
                                         st.running_mean[f])]
                 weighted_batch ==
                     [i \in 1..b_size |-> [f \in 1..F |-> TMul(weights[i], batch[i][f])]]
                 weighted_batch_mean ==
                     [f \in 1..F |-> TSum([i \in 1..b_size |-> weighted_batch[i][f]])]
                 mean == [f \in 1..F |->
                            TAdd(TMul(st.running_mean[f], running_weight),
                                 weighted_batch_mean[f])]
                 ex2b == [f \in 1..F |->
                            TAdd(ex2[f],
                                 TSum([i \in 1..b_size |->
                                     TMul(weighted_batch[i][f], batch[i][f])]))]
                 var == [f \in 1..F |-> TSub(ex2b[f], TSquare(mean[f]))]
             IN  Stats(mean, var, st.count + b_size)

\* self.update_stats(batch), dispatched on the class
UpdateStats(st, batch) ==
    IF norm = "RunningNorm" THEN RunningUpdateStats(st, batch)
    ELSE EMAUpdateStats(st, batch, decay, decay_within_batch)

NoCall == [op |-> "none", pre |-> Stats(<<>>, <<>>, 0), arg |-> <<>>,
           training |-> FALSE]

\* a call that may update the statistics: the statistics before it and,
\* when it did update them, its batch
Call(op, batch, updates) ==
    [op |-> op, pre |-> CurrentStats, arg |-> IF updates THEN batch ELSE <<>>,
     training |-> training]

\* any other call
OtherCall(op) == [NoCall EXCEPT !.op = op, !.training = training]

\* no normalizer yet; its tensors will hold numbers of `bits` significant
\* bits
NoNormalizer(bits) ==
    /\ norm = "none"
    /\ num_features = 0
    /\ decay = Zero
    /\ decay_within_batch = FALSE
    /\ training = FALSE
    /\ precision = bits
    /\ running_mean = <<>>
    /\ running_var = <<>>
    /\ count = 0
    /\ batches = <<>>
    /\ was_reset = FALSE
    /\ last = NoCall

NormIdle == NoNormalizer(0)

SetStats(st) ==
    /\ running_mean' = st.running_mean
    /\ running_var' = st.running_var
    /\ count' = st.count

\* a slip that accepts the closed interval
DecayInClosedRange(d) == Leq(Zero, d) /\ Leq(d, One)

\* 0 < decay < 1
DecayInRange(d) == Less(Zero, d) /\ Less(d, One)

\* RunningNorm(num_features): BaseNorm.__init__
ConstructRunningNorm(F) ==
    /\ norm = "none"
    /\ norm' = "RunningNorm"
    /\ num_features' = F
    /\ training' = TRUE
    /\ SetStats(ResetStats(F))
    /\ last' = [NoCall EXCEPT !.op = "RunningNorm"]
    /\ UNCHANGED <<oricVars, iterVars, seedVars, entVars, precision>>
    /\ UNCHANGED <<decay, decay_within_batch, batches, was_reset>>

\* EMANorm(num_features, decay, decay_within_batch): BaseNorm.__init__, then
\* the range check, which leaves the caller with an exception and no object
ConstructEMANorm(F, d, dwb) ==
    /\ norm = "none"
    /\ last' = [NoCall EXCEPT !.op = "EMANorm", !.arg = d]
    /\ IF ~DecayInRange(d)
       THEN /\ norm' = "ValueError"
            /\ UNCHANGED <<num_features, decay, decay_within_batch, training,
                           running_mean, running_var, count>>
       ELSE /\ norm' = "EMANorm"
            /\ num_features' = F
            /\ training' = TRUE
            /\ SetStats(ResetStats(F))
            /\ decay' = d
            /\ decay_within_batch' = dwb
    /\ UNCHANGED <<oricVars, iterVars, seedVars, entVars, precision>>
    /\ UNCHANGED <<batches, was_reset>>

Constructed == norm \in {"RunningNorm", "EMANorm"}

\* reset_running_stats()
ResetRunningStats ==
    /\ Constructed
    /\ SetStats(ResetStats(num_features))
    /\ batches' = <<>>
    /\ was_reset' = (was_reset \/ count > 0)
    /\ last' = OtherCall("reset_running_stats")
    /\ UNCHANGED <<oricVars, iterVars, seedVars, entVars, precision>>
    /\ UNCHANGED <<norm, num_features, decay, decay_within_batch, training>>

\* update_stats(batch), called directly
CallUpdateStats(batch) ==
    /\ Constructed
    /\ count + Len(batch) <= MaxCount
    /\ SetStats(UpdateStats(CurrentStats, batch))
    /\ batches' = Append(batches, batch)
    /\ last' = Call("update_stats", batch, TRUE)
    /\ UNCHANGED <<oricVars, iterVars, seedVars, entVars, precision>>
    /\ UNCHANGED <<norm, num_features, decay, decay_within_batch, training,
                   was_reset>>

\* a slip that updates the statistics in evaluation mode too
ForwardStatsAlways(batch) == UpdateStats(CurrentStats, batch)

\* the statistics forward(x) leaves: updated once when self.training
ForwardStats(batch) ==
    IF training THEN UpdateStats(CurrentStats, batch) ELSE CurrentStats

\* forward(x); the value returned, (x - running_mean) / sqrt(running_var +
\* eps), is a function of the statistics left and is not kept
Forward(batch) ==
    /\ Constructed
    /\ count + Len(batch) <= MaxCount
    /\ SetStats(ForwardStats(batch))
    /\ batches' = IF count' = count THEN batches ELSE Append(batches, batch)
    /\ last' = Call("forward", batch, training)
    /\ UNCHANGED <<oricVars, iterVars, seedVars, entVars, precision>>
    /\ UNCHANGED <<norm, num_features, decay, decay_within_batch, training,
                   was_reset>>

\* m.train(mode), as training_mode calls it on entering and on leaving
Train(mode) ==
    /\ Constructed
    /\ training' = mode
    /\ last' = OtherCall("train")
    /\ UNCHANGED <<oricVars, iterVars, seedVars, entVars, precision>>
    /\ UNCHANGED <<norm, num_features, decay, decay_within_batch,
                   running_mean, running_var, count, batches, was_reset>>

NormInit == NormIdle /\ OricIdle /\ IterIdle /\ SeedsIdle /\ EntropyIdle

\* the same, computing with FloatBits significant bits
NormFloatInit ==
    NoNormalizer(FloatBits) /\ OricIdle /\ IterIdle /\ SeedsIdle /\ EntropyIdle

NormNext ==
    \/ \E F \in FeatureCounts : ConstructRunningNorm(F)
    \/ \E F \in FeatureCounts, d \in GoodDecays \cup BadDecays, dwb \in BOOLEAN :
          ConstructEMANorm(F, d, dwb)
    \/ ResetRunningStats
    \/ \E batch \in Batches(num_features) : CallUpdateStats(batch)
    \/ \E batch \in Batches(num_features) : Forward(batch)
    \/ \E mode \in BOOLEAN : Train(mode)

-----------------------------------------------------------------------------
(* The specifications.                                                     *)

(* oric, called once on a vector of OricInputs.                            *)

OricInit ==
    /\ x \in OricInputs
    /\ rounded = <<>>
    /\ indices = <<>>
    /\ oric_pc = "ready"
    /\ NormIdle
    /\ IterIdle
    /\ SeedsIdle
    /\ EntropyIdle

OricCall ==
    /\ oric_pc = "ready"
    /\ \E p \in Argsort(NegVec(Shortfall(x))) :
          /\ indices' = p
          /\ rounded' = oric(x, p)
    /\ oric_pc' = "done"
    /\ UNCHANGED x
    /\ UNCHANGED <<normVars, iterVars, seedVars, entVars>>

OricNext == OricCall

SpecOric == OricInit /\ [][OricNext]_vars

SpecNorm == NormInit /\ [][NormNext]_vars

SpecNormFloat == NormFloatInit /\ [][NormNext]_vars

(* endless_iter, called once on a source, and next() on what it returns.   *)

IterInit ==
    /\ iterable \in Sources
    /\ is_iterator \in BOOLEAN
    /\ iter_pc = "ready"
    /\ cycled = <<>>
    /\ inner = NoInner
    /\ yielded = <<>>
    /\ first_pc = "ready"
    /\ first_element = <<>>
    /\ return_iterable = <<>>
    /\ drawn = <<>>
    /\ NormIdle
    /\ OricIdle
    /\ SeedsIdle
    /\ EntropyIdle

SpecIter == IterInit /\ [][IterNext]_vars

(* make_seeds, called once with n None or 0 .. MaxSeeds.                   *)

SeedsInit ==
    /\ n_arg \in {<<>>} \cup {<<n>> : n \in 0..MaxSeeds}
    /\ seeds_pc = "ready"
    /\ seeds = NoSeeds
    /\ NormIdle
    /\ OricIdle
    /\ IterIdle
    /\ EntropyIdle

SpecSeeds == SeedsInit /\ [][SeedsNext]_vars

(* compute_state_entropy, called once.                                     *)

EntropyInit ==
    /\ obs \in Queries
    /\ all_obs \in References
    /\ k_arg \in 1..MaxK
    /\ ent_pc = "ready"
    /\ knn_dists = <<>>
    /\ NormIdle
    /\ OricIdle
    /\ IterIdle
    /\ SeedsIdle

SpecEntropy == EntropyInit /\ [][EntropyNext]_vars

-----------------------------------------------------------------------------
(* Properties of oric.                                                     *)

RECURSIVE SumInts(_)
SumInts(s) == IF s = <<>> THEN 0 ELSE Head(s) + SumInts(Tail(s))

\* a common denominator of the elements of v
RECURSIVE CommonDen(_)
CommonDen(v) ==
    IF v = <<>> THEN 1
    ELSE LET r == CommonDen(Tail(v))
         IN  (Head(v)[2] \div Gcd(Head(v)[2], r)) * r

\* |y[i] - v[i]| in units of 1/den
ErrUnits(y, v, i, den) == Abs(y[i] * den - v[i][1] * (den \div v[i][2]))

RECURSIVE SumOver(_, _, _)
SumOver(f, lo, hi) == IF lo > hi THEN 0 ELSE f[lo] + SumOver(f, lo + 1, hi)

\* the p-th power of the Lp norm of y - v, in units of 1/den^p
LpErr(y, v, p, den) ==
    SumOver([i \in 1..Len(v) |-> PowInt(ErrUnits(y, v, i, den), p)], 1, Len(v))

\* the maximum norm of y - v, in units of 1/den
RECURSIVE MaxOver(_, _, _)
MaxOver(f, lo, hi) ==
    IF lo > hi THEN 0
    ELSE LET r == MaxOver(f, lo + 1, hi) IN IF f[lo] > r THEN f[lo] ELSE r

MaxErr(y, v, den) ==
    MaxOver([i \in 1..Len(v) |-> ErrUnits(y, v, i, den)], 1, Len(v))

SumIsInteger == IsInt(SumSeq(x))

\* the integer vectors of the length of v with the sum of v, each element
\* between floor - 1 and floor + 2 of the element of v it stands for
SameSumRoundings(v) ==
    LET n == Len(v)
        total == SumSeq(v)[1]
        base == SumInts(FloorVec(v))
        shifts == {d \in [1..n -> (-1)..2] : base + SumOver(d, 1, n) = total}
    IN  {[i \in 1..n |-> Floor(v[i]) + d[i]] : d \in shifts}

RoundedUp == {i \in 1..Len(x) : rounded[i] = Floor(x[i]) + 1}
RoundedDown == {i \in 1..Len(x) : rounded[i] = Floor(x[i])}

\* C1: when the elements of x sum to an integer, oric(x) is an integer
\* vector of the length of x whose elements sum to exactly sum(x).
C1_SumPreserved ==
    (oric_pc = "done" /\ SumIsInteger) =>
        /\ Len(rounded) = Len(x)
        /\ \A i \in 1..Len(rounded) : rounded[i] \in Int
        /\ FromInt(SumInts(rounded)) = SumSeq(x)

C1_Witness ==
    /\ oric_pc = "done"
    /\ SumIsInteger
    /\ Len(x) = 3
    /\ \E i \in 1..3 : ~IsInt(x[i])
    /\ TotalShortfall(x) = 1
    /\ SumInts(rounded) = 0

\* C2: when the elements of x sum to an integer, no integer vector of the
\* same length and sum is closer to x than oric(x) in any Lp norm, p >= 1
\* (p = 1 .. MaxP and the maximum norm are compared); exactly
\* round(sum of the fractional parts) elements are rounded up, the others
\* are floored, and no floored element has a strictly larger fractional
\* part than an element rounded up.
C2_MinimalError ==
    (oric_pc = "done" /\ SumIsInteger) =>
        /\ LET den == CommonDen(x)
                mine == [p \in 1..MaxP |-> LpErr(rounded, x, p, den)]
                mineMax == MaxErr(rounded, x, den)
            IN  \A y \in SameSumRoundings(x) :
                  /\ \A p \in 1..MaxP : mine[p] <= LpErr(y, x, p, den)
                  /\ mineMax <= MaxErr(y, x, den)
        /\ Cardinality(RoundedUp) = Round(SumSeq(Shortfall(x)))
        /\ RoundedUp \cup RoundedDown = 1..Len(x)
        /\ \A i \in RoundedDown, j \in RoundedUp :
              ~Less(Shortfall(x)[j], Shortfall(x)[i])

C2_Witness ==
    /\ oric_pc = "done"
    /\ SumIsInteger
    /\ Len(x) = 3
    /\ Cardinality(RoundedUp) = 1
    /\ \E i \in RoundedDown, j \in RoundedUp :
          /\ Less(Zero, Shortfall(x)[i])
          /\ Less(Shortfall(x)[i], Shortfall(x)[j])
    /\ Cardinality(SameSumRoundings(x)) > 1

-----------------------------------------------------------------------------
(* Properties of the normalisation layers.                                 *)

RECURSIVE Concat(_)
Concat(bs) == IF bs = <<>> THEN <<>> ELSE Head(bs) \o Concat(Tail(bs))

\* the rows given to update_stats since the statistics were at their defaults
Fed == Concat(batches)

\* mean of column f of rows: the sum over the number of rows
DirectMean(rows, f) ==
    Div(SumSeq([i \in 1..Len(rows) |-> rows[i][f]]), FromInt(Len(rows)))

\* population variance of column f of rows: the mean squared distance from
\* the mean
DirectVar(rows, f) ==
    Div(SumSeq([i \in 1..Len(rows) |->
                    Square(Sub(rows[i][f], DirectMean(rows, f)))]),
        FromInt(Len(rows)))

Features == 1..num_features

\* C3: whatever non-empty sub-batches a fresh or reset RunningNorm was given,
\* one after another, its running_mean and running_var are the mean and the
\* population variance of all their rows together, and count is their number.
C3_SplitIndependent ==
    (norm = "RunningNorm" /\ batches /= <<>>) =>
        /\ count = Len(Fed)
        /\ \A f \in Features :
              /\ running_mean[f] = DirectMean(Fed, f)
              /\ running_var[f] = DirectVar(Fed, f)

C3_Witness ==
    /\ norm = "RunningNorm"
    /\ Len(batches) = 2
    /\ Len(batches[1]) = 1
    /\ Len(batches[2]) = 2
    /\ batches[1][1] /= batches[2][1]
    /\ batches[2][1] /= batches[2][2]
    /\ was_reset

\* C4: every entry of running_var is non-negative and count >= 0, for both
\* classes, after any calls.  It holds under SpecNorm (exact arithmetic);
\* under SpecNormFloat EMANorm's E[x^2] - mean^2 rounds below zero.
C4_VarNonNegative ==
    Constructed =>
        /\ count >= 0
        /\ \A f \in Features : Leq(Zero, running_var[f])

C4_Witness ==
    /\ norm = "EMANorm"
    /\ decay_within_batch
    /\ Len(batches) = 2
    /\ Len(batches[2]) = 2
    /\ last.op = "forward"
    /\ \A f \in Features : Less(Zero, running_var[f])

\* the statistics a constructor leaves
FreshStats == Stats([f \in Features |-> <<0, 1>>], [f \in Features |-> <<1, 1>>], 0)

RECURSIVE Replay(_, _)
Replay(st, bs) ==
    IF bs = <<>> THEN st ELSE Replay(UpdateStats(st, Head(bs)), Tail(bs))

\* C5: reset_running_stats() leaves running_mean = 0, running_var = 1 and
\* count = 0, as construction does, and from then on the statistics are
\* those of a freshly constructed normalizer given the same batches.
C5_ResetIsFresh ==
    /\ (Constructed /\ last.op \in {"reset_running_stats", "RunningNorm", "EMANorm"})
          => CurrentStats = FreshStats
    /\ Constructed => CurrentStats = Replay(FreshStats, batches)

C5_Witness ==
    /\ norm = "EMANorm"
    /\ was_reset
    /\ Len(batches) = 2
    /\ last.op = "update_stats"
    /\ CurrentStats /= FreshStats

\* C6: forward(x) outside training mode leaves running_mean, running_var and
\* count as they were; in training mode it applies update_stats(x) once.
C6_ForwardFrame ==
    (Constructed /\ last.op = "forward") =>
        IF last.training
        THEN /\ last.arg /= <<>>
             /\ CurrentStats = UpdateStats(last.pre, last.arg)
             /\ count = last.pre.count + Len(last.arg)
        ELSE CurrentStats = last.pre

C6_Witness ==
    /\ Constructed
    /\ last.op = "forward"
    /\ ~last.training
    /\ count > 0
    /\ CurrentStats = last.pre

\* C7: EMANorm(decay) raises ValueError and leaves no normalizer exactly
\* when decay <= 0 or decay >= 1; every decay strictly between is accepted.
C7_DecayChecked ==
    /\ last.op = "EMANorm" =>
          IF last.arg[1] <= 0 \/ last.arg[1] >= last.arg[2]
          THEN norm = "ValueError" /\ running_mean = <<>> /\ running_var = <<>>
          ELSE norm = "EMANorm" /\ decay = last.arg
    /\ norm = "EMANorm" => (0 < decay[1] /\ decay[1] < decay[2])

C7_Witness ==
    /\ norm = "ValueError"
    /\ last.op = "EMANorm"
    /\ last.arg = <<1, 1>>

RECURSIVE RatPower(_, _)
RatPower(a, e) == IF e = 0 THEN One ELSE Mul(a, RatPower(a, e - 1))

\* the weights the first update gives the rows of a batch of b rows
FirstUpdateWeight(i, b) ==
    IF decay_within_batch
    THEN IF i = 1 THEN RatPower(decay, b - 1)
         ELSE Mul(Sub(One, decay), RatPower(decay, b - i))
    ELSE <<1, b>>

LastUpdated == last.op \in {"update_stats", "forward"} /\ last.arg /= <<>>

\* C8: an EMANorm update at count == 0 leaves the weighted mean and the
\* weighted variance of the batch alone, under weights that sum to 1; a
\* batch of one row leaves a variance of 0.
C8_FirstUpdate ==
    (norm = "EMANorm" /\ LastUpdated /\ last.pre.count = 0) =>
        LET b == Len(last.arg)
            w == [i \in 1..b |-> FirstUpdateWeight(i, b)]
            mean(f) == SumSeq([i \in 1..b |-> Mul(w[i], last.arg[i][f])])
        IN  /\ SumSeq(w) = One
            /\ \A f \in Features :
                  /\ running_mean[f] = mean(f)
                  /\ running_var[f] =
                       SumSeq([i \in 1..b |->
                           Mul(w[i], Square(Sub(last.arg[i][f], mean(f))))])
                  /\ b = 1 => running_var[f] = Zero

C8_Witness ==
    /\ norm = "EMANorm"
    /\ decay_within_batch
    /\ was_reset
    /\ LastUpdated
    /\ last.pre.count = 0
    /\ Len(last.arg) = 2
    /\ \A f \in Features : Less(Zero, running_var[f])

\* C9: without decay within the batch and with count > 0, update_stats
\* leaves running_mean = decay * old + (1 - decay) * mean(batch); with
\* decay = 0.9, [[1.0]] then [[3.0]] leave 1.2.
C9_DecayedMean ==
    /\ (norm = "EMANorm" /\ ~decay_within_batch /\ LastUpdated
            /\ last.pre.count > 0) =>
          \A f \in Features :
              running_mean[f] =
                  Add(Mul(decay, last.pre.running_mean[f]),
                      Mul(Sub(One, decay), DirectMean(last.arg, f)))
    /\ (norm = "EMANorm" /\ ~decay_within_batch /\ decay = <<9, 10>>
            /\ batches = << <<<< <<1, 1>> >>>>, <<<< <<3, 1>> >>>> >>) =>
          running_mean = << <<6, 5>> >>

C9_Witness ==
    /\ norm = "EMANorm"
    /\ ~decay_within_batch
    /\ decay = <<9, 10>>
    /\ batches = << <<<< <<1, 1>> >>>>, <<<< <<3, 1>> >>>> >>
    /\ running_mean = << <<6, 5>> >>

-----------------------------------------------------------------------------
(* Properties of endless_iter.                                             *)

\* C10: for a non-empty source that is not an iterator, endless_iter
\* returns an iterator that never ends: as long as elements are asked for
\* it gives one, and the n-th element it gives (n = 0, 1, ...) is element
\* n mod len(s) of the source
C10_EndlessCycle ==
    (~is_iterator /\ Len(iterable) > 0 /\ iter_pc # "ready" /\ iter_pc # "idle") =>
        /\ iter_pc = "iterating"
        /\ \A n \in 0..(Len(yielded) - 1) :
              yielded[n + 1] = iterable[(n % Len(iterable)) + 1]
        /\ Len(yielded) < MaxYield => ENABLED NextElement

\* a source of two different elements has been gone through three times
C10_Witness ==
    /\ iter_pc = "iterating"
    /\ ~is_iterator
    /\ Len(iterable) = 2
    /\ iterable[1] # iterable[2]
    /\ Len(yielded) > 2 * Len(iterable)

\* the elements of d are the first elements of s, in order
IsPrefix(d, s) ==
    /\ Len(d) <= Len(s)
    /\ \A i \in 1..Len(d) : d[i] = s[i]

\* C11: endless_iter raises ValueError and yields nothing on an iterator
\* and on an empty source; get_first_iter_element raises ValueError on an
\* empty argument, and on a non-empty one, iterator or not, returns its
\* first element and an iterable that yields all its elements from the
\* first one on
C11_ErrorsAndFirst ==
    /\ (iter_pc \notin {"idle", "ready"} /\ (is_iterator \/ Len(iterable) = 0)) =>
          iter_pc = "ValueError" /\ yielded = <<>>
    /\ (first_pc \notin {"idle", "ready"} /\ Len(iterable) = 0) =>
          first_pc = "ValueError" /\ drawn = <<>>
    /\ (first_pc \notin {"idle", "ready"} /\ Len(iterable) > 0) =>
          /\ first_pc \in {"returned", "StopIteration"}
          /\ first_element = <<iterable[1]>>
          /\ IsPrefix(drawn, iterable)
          /\ first_pc = "StopIteration" => drawn = iterable

\* an iterator of several elements went through get_first_iter_element and
\* what it returned has been drained
C11_Witness ==
    /\ is_iterator
    /\ Len(iterable) >= 2
    /\ iterable[1] # iterable[2]
    /\ first_pc = "StopIteration"
    /\ drawn = iterable

-----------------------------------------------------------------------------
(* Properties of make_seeds.                                               *)

\* C12: make_seeds(rng, n) returns a list of exactly n integers,
\* make_seeds(rng) a single integer and no list; every seed s has
\* 0 <= s <= 2^31 - 2
C12_SeedsInRange ==
    seeds_pc = "done" =>
        /\ n_arg # <<>> => seeds.is_list /\ Len(seeds.values) = n_arg[1]
        /\ n_arg = <<>> => ~seeds.is_list /\ Len(seeds.values) = 1
        /\ \A i \in 1..Len(seeds.values) :
              0 <= seeds.values[i] /\ seeds.values[i] <= SeedHigh - 1

\* a list of several seeds holding both ends of the range
C12_Witness ==
    /\ seeds_pc = "done"
    /\ n_arg # <<>>
    /\ Len(seeds.values) >= 2
    /\ seeds.values[1] = 0
    /\ seeds.values[2] = SeedHigh - 1

-----------------------------------------------------------------------------
(* Properties of compute_state_entropy.                                    *)

\* the distances from q to every reference row, each row once
DirectDists(q) == [j \in 1..Len(all_obs) |-> Dist(q, all_obs[j])]

\* C13: for every query row the value returned is the k-th smallest of the
\* distances to all reference rows, each counted once, whatever the number
\* of reference rows is relative to the chunk size
C13_KthNearest ==
    ent_pc = "done" =>
        \A i \in 1..Len(obs) : knn_dists[i] = KthValue(DirectDists(obs[i]), k_arg)

\* what the call does return: the (k+1)-th smallest of the distances to all
\* reference rows, each counted once, and an error when there are no more
\* than k reference rows
C13_NextNearest ==
    /\ ent_pc = "error" => Len(all_obs) <= k_arg
    /\ ent_pc = "done" =>
          /\ Len(all_obs) > k_arg
          /\ \A i \in 1..Len(obs) :
                knn_dists[i] = KthValue(DirectDists(obs[i]), k_arg + 1)

\* a reference set of exactly two chunks whose nearest row is the last of
\* the second chunk
C13_Witness ==
    /\ ent_pc = "done"
    /\ Len(all_obs) = 2 * batch_size
    /\ \A j \in 1..(Len(all_obs) - 1) : all_obs[j] = 3
    /\ all_obs[Len(all_obs)] = 0
    /\ obs = <<0>>
    /\ k_arg = 1

====
